---- MODULE Spec2Model ----
(***************************************************************************)
(* Model of the CRM GraphQL backend (crm/models.py, crm/schema.py,         *)
(* crm/filters.py).  The Entity Store is a relational store with           *)
(* read-committed transactions: rows written inside transaction.atomic()   *)
(* stay in the writer's buffer until the block exits, rows written outside *)
(* one are committed at once (autocommit).  Each request handler runs one  *)
(* mutation at a time; its store calls are the steps of the model.         *)
(* Money is counted in cents (DecimalField, decimal_places = 2); the Float *)
(* price of a ProductInput is counted in thousandths.                      *)
(***************************************************************************)
EXTENDS Integers, Sequences, FiniteSets, TLC

\* ------------------------------------------------------------------ bounds
MaxCustomers == 2
MaxProducts == 2
MaxOrders == 1
MaxBatch == 2

\* ------------------------------------------------------- request handlers
Procs == {"r1", "r2"}

\* ------------------------------------------------------------ input values
Emails == {"a@x.com", "b@x.com"}

GoodPhone == <<"+", "1", "4", "1", "5", "5", "5", "5", "0", "1", "0", "0">>
BadPhone == <<"5", "5", "5", "-", "0", "1">>
PhoneInputs == {<< >>, GoodPhone, BadPhone}

CustomerInputs == [email : Emails, phone : PhoneInputs]

\* The items of a batch: every email, with no phone or a malformed one.
BatchItems == [email : Emails, phone : {<< >>, BadPhone}]

RECURSIVE SeqsUpTo(_, _)
SeqsUpTo(S, n) ==
    IF n = 0 THEN {<< >>}
    ELSE LET shorter == SeqsUpTo(S, n - 1)
         IN  shorter \cup {Append(s, x) : s \in {t \in shorter : Len(t) = n - 1}, x \in S}

BatchInputs == SeqsUpTo(BatchItems, MaxBatch)

\* The inputs of the specification of all four mutations: a sample of the
\* customer inputs above that keeps every branch of the two mutations.
CustomerSamples ==
    {[email |-> "a@x.com", phone |-> << >>],
     [email |-> "b@x.com", phone |-> GoodPhone],
     [email |-> "b@x.com", phone |-> BadPhone]}

BatchSamples ==
    {<<[email |-> "a@x.com", phone |-> << >>]>>,
     <<[email |-> "a@x.com", phone |-> << >>], [email |-> "b@x.com", phone |-> BadPhone]>>}

\* Product inputs: the price is the Float in thousandths (4 is 0.004, 5500 is
\* 5.50); stock may be omitted.
Widget == <<"W", "i", "d">>
ProductInputs ==
    {[name |-> Widget, price |-> 0],
     [name |-> Widget, price |-> -1000, stock |-> 5],
     [name |-> Widget, price |-> 4],
     [name |-> Widget, price |-> 5500, stock |-> 5],
     [name |-> Widget, price |-> 10000],
     [name |-> Widget, price |-> 10000, stock |-> -1]}

\* Order inputs: an id that exists once the store has rows, and one past every
\* key the sequences can give; id lists with a repeated and with an unknown id.
ProductIdLists == {<< >>, <<1>>, <<2>>, <<1, 1>>, <<1, 2>>, <<1, MaxProducts + 1>>}
Times == {1, 2}
OrderDateInputs == {0}
OrderInputs ==
    [customer_id : {1}, product_ids : ProductIdLists]
        \cup [customer_id : {1}, product_ids : {<<1>>, <<1, 2>>}, order_date : OrderDateInputs]
        \cup [customer_id : {MaxCustomers + 1}, product_ids : {<< >>, <<1>>}]

Null == [null |-> TRUE]

\* A request as a handler holds it: the mutation's name and its input.
Request(op, input) == [op |-> op, input |-> input]
NoRequest == [op |-> "none"]
NoResult == [op |-> "none"]

\* ------------------------------------------------------------------- state
VARIABLES
    customers,      \* committed Customer rows
    products,       \* committed Product rows
    orders,         \* committed Order rows, each with its product association
    nextCustomerId, \* the three primary-key sequences
    nextProductId,
    nextOrderId,
    pc,             \* where each request handler stands
    req,            \* the input of the mutation it runs
    txCustomers,    \* Customer rows it wrote inside an open atomic block
    txOrders,       \* Order rows it wrote inside an open atomic block
    needsRollback,  \* its atomic block was marked broken by a failed write
    idx,            \* bulkCreateCustomers: position in the input list
    created,        \* bulkCreateCustomers: created_customers
    errors,         \* bulkCreateCustomers: errors
    resolved,       \* createOrder: the evaluated products queryset
    order,          \* createOrder: the in-memory Order instance
    result          \* the result object the mutation returned

vars == <<customers, products, orders, nextCustomerId, nextProductId, nextOrderId,
          pc, req, txCustomers, txOrders, needsRollback, idx, created, errors,
          resolved, order, result>>

storeVars == <<customers, products, orders, nextCustomerId, nextProductId, nextOrderId>>
bulkVars == <<idx, created, errors>>
orderVars == <<resolved, order>>

\* ------------------------------------------------------------ pure helpers
Digits == {"0", "1", "2", "3", "4", "5", "6", "7", "8", "9"}

IsDigits(s) == \A i \in 1 .. Len(s) : s[i] \in Digits

\* \+\d{1,3}\d{9,10}
MatchIntl(s) ==
    /\ Len(s) >= 1
    /\ s[1] = "+"
    /\ IsDigits(Tail(s))
    /\ Len(s) - 1 >= 1 + 9
    /\ Len(s) - 1 <= 3 + 10

\* \d{3}-\d{3}-\d{4}
MatchDashed(s) ==
    /\ Len(s) = 12
    /\ s[4] = "-"
    /\ s[8] = "-"
    /\ IsDigits(SubSeq(s, 1, 3))
    /\ IsDigits(SubSeq(s, 5, 7))
    /\ IsDigits(SubSeq(s, 9, 12))

\* re.match(phone_pattern, phone): "$" also matches before a final newline.
PhoneMatches(s) ==
    LET core(t) == MatchIntl(t) \/ MatchDashed(t)
    IN  \/ core(s)
        \/ /\ Len(s) >= 1
           /\ s[Len(s)] = "\n"
           /\ core(SubSeq(s, 1, Len(s) - 1))

\* "if input.phone:" and the regular expression after it.
PhoneRejected(phone) == phone # << >> /\ ~PhoneMatches(phone)

RECURSIVE SumPrices(_)
SumPrices(S) ==
    IF S = {} THEN 0
    ELSE LET x == CHOOSE y \in S : TRUE
         IN  x.price + SumPrices(S \ {x})


\* Decimal(str(price)) written to a column with decimal_places = 2: the store
\* keeps two places, rounding half to even.  Thousandths in, cents out.
PriceToCents(t) ==
    LET q == t \div 10
        r == t % 10
    IN  IF r < 5 THEN q
        ELSE IF r > 5 THEN q + 1
        ELSE IF q % 2 = 0 THEN q ELSE q + 1

RECURSIVE SeqToSet(_)
SeqToSet(s) == IF s = << >> THEN {} ELSE {Head(s)} \cup SeqToSet(Tail(s))

RECURSIVE SumOver(_, _)
SumOver(f, S) ==
    IF S = {} THEN 0
    ELSE LET x == CHOOSE y \in S : TRUE
         IN  f[x] + SumOver(f, S \ {x})

\* ----------------------------------------------------------- store helpers
IntegrityErrorText == "UNIQUE constraint failed: crm_customer.email"
StoreFaultText == "database error"
BrokenTransactionText == "An error occurred in the current transaction"

\* Customer.email is declared unique: an insert of email into rows is allowed
\* only when no row holds it.
UniqueEmailDropped(email, rows) == TRUE

UniqueEmail(email, rows) == \A c \in rows : c.email # email

\* A lookup that never finds the email.
EmailNeverExists(p, email) == FALSE

\* Customer.objects.filter(email=...).exists() as the handler p sees the store:
\* the committed rows and the rows of its own open transaction.
EmailExists(p, email) == \E c \in customers \cup txCustomers[p] : c.email = email

\* An insert waits while another open transaction holds a row with the same key.
HeldByOther(p, email) == \E q \in Procs \ {p} : ~UniqueEmail(email, txCustomers[q])

\* The key sequences stay within the bounds: a row is inserted, and a request
\* that may insert one is taken up, only while a key is left.
CustomerRoom == nextCustomerId <= MaxCustomers

ProductRoom == nextProductId <= MaxProducts

OrderRoom == nextOrderId <= MaxOrders

\* The handler is finished: result[p] holds what the mutation returned.
Finish(p, res) ==
    /\ pc' = [pc EXCEPT ![p] = "done"]
    /\ result' = [result EXCEPT ![p] = res]

\* An exception leaves the mutation uncaught.
Propagate(p, res) ==
    /\ pc' = [pc EXCEPT ![p] = "raised"]
    /\ UNCHANGED result

\* "except Exception as e: return ...Result(...)": the outermost handler of
\* every mutate turns the exception into the result res.
Caught(p, res) == Finish(p, res)

\* A result is handed to the caller before any handler takes another step:
\* handing it over touches nothing the handlers share.
NoResponsePending == \A q \in Procs : pc[q] # "done"

\* -------------------------------------------------------------------- Init
Init ==
    /\ customers = {}
    /\ products = {}
    /\ orders = {}
    /\ nextCustomerId = 1
    /\ nextProductId = 1
    /\ nextOrderId = 1
    /\ pc = [p \in Procs |-> "idle"]
    /\ req = [p \in Procs |-> NoRequest]
    /\ txCustomers = [p \in Procs |-> {}]
    /\ txOrders = [p \in Procs |-> {}]
    /\ needsRollback = [p \in Procs |-> FALSE]
    /\ idx = [p \in Procs |-> 0]
    /\ created = [p \in Procs |-> << >>]
    /\ errors = [p \in Procs |-> << >>]
    /\ resolved = [p \in Procs |-> {}]
    /\ order = [p \in Procs |-> Null]
    /\ result = [p \in Procs |-> NoResult]

\* ---------------------------------------------------------- createCustomer
CustomerResult(customer, message, success) ==
    [op |-> "createCustomer", customer |-> customer, message |-> message,
     success |-> success]

\* CreateCustomer.mutate up to the insert: the email lookup, then the phone.
CreateCustomerValidate(p, input) ==
    /\ NoResponsePending
    /\ pc[p] = "idle"
    /\ req' = [req EXCEPT ![p] = Request("createCustomer", input)]
    /\ IF EmailExists(p, input.email)
       THEN Finish(p, CustomerResult(Null, "Email already exists", FALSE))
       ELSE IF PhoneRejected(input.phone)
       THEN Finish(p, CustomerResult(Null,
                "Phone must be in format '+1234567890' or '123-456-7890'", FALSE))
       ELSE /\ CustomerRoom
            /\ pc' = [pc EXCEPT ![p] = "cc_create"]
            /\ UNCHANGED result
    /\ UNCHANGED <<storeVars, txCustomers, txOrders, needsRollback, bulkVars, orderVars>>

\* Customer.objects.create in autocommit: the unique constraint decides.
CreateCustomerInsert(p) ==
    /\ NoResponsePending
    /\ pc[p] = "cc_create"
    /\ ~HeldByOther(p, req[p].input.email)
    /\ IF UniqueEmail(req[p].input.email, customers)
       THEN LET row == [id |-> nextCustomerId, email |-> req[p].input.email,
                        phone |-> req[p].input.phone]
            IN  /\ CustomerRoom
                /\ customers' = customers \cup {row}
                /\ nextCustomerId' = nextCustomerId + 1
                /\ Finish(p, CustomerResult(row, "Customer created successfully", TRUE))
       ELSE /\ Caught(p, CustomerResult(Null,
                    "Error creating customer: " \o IntegrityErrorText, FALSE))
            /\ UNCHANGED <<customers, nextCustomerId>>
    /\ UNCHANGED <<products, orders, nextProductId, nextOrderId, req, txCustomers,
                   txOrders, needsRollback, bulkVars, orderVars>>

\* The insert fails for a reason of the store (unreachable, lock timeout).
CreateCustomerFault(p) ==
    /\ NoResponsePending
    /\ pc[p] = "cc_create"
    /\ Caught(p, CustomerResult(Null, "Error creating customer: " \o StoreFaultText, FALSE))
    /\ UNCHANGED <<storeVars, req, txCustomers, txOrders, needsRollback, bulkVars,
                   orderVars>>

\* ----------------------------------------------------- bulkCreateCustomers
BulkResult(cs, errs, success) ==
    [op |-> "bulkCreateCustomers", customers |-> cs, errors |-> errs,
     success |-> success]

\* "success=len(created_customers) > 0"
BulkSuccessIfNoErrors(cs, errs) == Len(errs) = 0

BulkSuccess(cs, errs) == Len(cs) > 0

\* An error string that counts the items from 0.
ItemErrorFromZero(i, reason) == "Customer " \o ToString(i - 1) \o ": " \o reason

ItemError(i, reason) == "Customer " \o ToString(i) \o ": " \o reason

\* "continue", or the end of the loop body: on to the next item, or out of the
\* loop and of the atomic block.
NextItem(p) ==
    /\ idx' = [idx EXCEPT ![p] = idx[p] + 1]
    /\ pc' = [pc EXCEPT ![p] = IF idx[p] + 1 > Len(req[p].input) THEN "bc_exit" ELSE "bc_check"]

\* BulkCreateCustomers.mutate enters transaction.atomic() and the loop.
BulkBegin(p, input) ==
    /\ NoResponsePending
    /\ pc[p] = "idle"
    /\ CustomerRoom
    /\ req' = [req EXCEPT ![p] = Request("bulkCreateCustomers", input)]
    /\ idx' = [idx EXCEPT ![p] = 1]
    /\ created' = [created EXCEPT ![p] = << >>]
    /\ errors' = [errors EXCEPT ![p] = << >>]
    /\ pc' = [pc EXCEPT ![p] = IF Len(input) = 0 THEN "bc_exit" ELSE "bc_check"]
    /\ UNCHANGED <<storeVars, txCustomers, txOrders, needsRollback, orderVars, result>>

\* One item's validation.  Once a write has failed inside the atomic block the
\* email lookup itself raises, and the item's except clause records it.
BulkValidate(p) ==
    /\ NoResponsePending
    /\ pc[p] = "bc_check"
    /\ LET item == req[p].input[idx[p]]
           fail(reason) ==
               /\ errors' = [errors EXCEPT ![p] = Append(errors[p], ItemError(idx[p], reason))]
               /\ NextItem(p)
       IN  IF needsRollback[p] THEN fail(BrokenTransactionText)
           ELSE IF EmailExists(p, item.email) THEN fail("Email already exists")
           ELSE IF PhoneRejected(item.phone) THEN fail("Invalid phone format")
           ELSE /\ pc' = [pc EXCEPT ![p] = "bc_create"]
                /\ UNCHANGED <<idx, errors>>
    /\ UNCHANGED <<storeVars, req, txCustomers, txOrders, needsRollback, created,
                   orderVars, result>>

\* One item's Customer.objects.create inside the atomic block.  A rejected
\* insert marks the block for rollback; the item's except clause records it.
BulkInsert(p) ==
    /\ NoResponsePending
    /\ pc[p] = "bc_create"
    /\ LET item == req[p].input[idx[p]]
       IN  /\ ~HeldByOther(p, item.email)
           /\ IF UniqueEmail(item.email, customers \cup txCustomers[p])
              THEN LET row == [id |-> nextCustomerId, email |-> item.email,
                               phone |-> item.phone]
                   IN  /\ CustomerRoom
                       /\ txCustomers' = [txCustomers EXCEPT ![p] = txCustomers[p] \cup {row}]
                       /\ nextCustomerId' = nextCustomerId + 1
                       /\ created' = [created EXCEPT ![p] = Append(created[p], row)]
                       /\ UNCHANGED <<errors, needsRollback>>
              ELSE /\ errors' = [errors EXCEPT ![p] =
                                    Append(errors[p], ItemError(idx[p], IntegrityErrorText))]
                   /\ needsRollback' = [needsRollback EXCEPT ![p] = TRUE]
                   /\ UNCHANGED <<txCustomers, nextCustomerId, created>>
    /\ NextItem(p)
    /\ UNCHANGED <<customers, products, orders, nextProductId, nextOrderId, req,
                   txOrders, orderVars, result>>

\* The insert fails for a reason of the store.
BulkInsertFault(p) ==
    /\ NoResponsePending
    /\ pc[p] = "bc_create"
    /\ errors' = [errors EXCEPT ![p] = Append(errors[p], ItemError(idx[p], StoreFaultText))]
    /\ needsRollback' = [needsRollback EXCEPT ![p] = TRUE]
    /\ NextItem(p)
    /\ UNCHANGED <<storeVars, req, txCustomers, txOrders, created, orderVars, result>>

\* The atomic block exits without an exception: it commits, or, when marked
\* for rollback, rolls back without raising.  Then the result is built.
BulkExit(p) ==
    /\ NoResponsePending
    /\ pc[p] = "bc_exit"
    /\ customers' = IF needsRollback[p] THEN customers ELSE customers \cup txCustomers[p]
    /\ txCustomers' = [txCustomers EXCEPT ![p] = {}]
    /\ needsRollback' = [needsRollback EXCEPT ![p] = FALSE]
    /\ Finish(p, BulkResult(created[p], errors[p], BulkSuccess(created[p], errors[p])))
    /\ UNCHANGED <<products, orders, nextCustomerId, nextProductId, nextOrderId, req,
                   txOrders, bulkVars, orderVars>>

\* The commit itself fails: the outer except clause answers.
BulkExitFault(p) ==
    /\ NoResponsePending
    /\ pc[p] = "bc_exit"
    /\ txCustomers' = [txCustomers EXCEPT ![p] = {}]
    /\ needsRollback' = [needsRollback EXCEPT ![p] = FALSE]
    /\ Caught(p, BulkResult(<< >>, <<"Transaction failed: " \o StoreFaultText>>, FALSE))
    /\ UNCHANGED <<storeVars, req, txOrders, bulkVars, orderVars>>

\* ----------------------------------------------------------- createProduct
ProductResult(product, message, success) ==
    [op |-> "createProduct", product |-> product, message |-> message,
     success |-> success]

\* "stock = input.stock if input.stock is not None else 0"
StockOf(input) == IF "stock" \in DOMAIN input THEN input.stock ELSE 0

\* CreateProduct.mutate: two checks on the input, then one autocommit insert.
\* The returned instance keeps the price as given (price1000, in thousandths);
\* the row holds it in cents.
CreateProduct(p, input) ==
    /\ NoResponsePending
    /\ pc[p] = "idle"
    /\ req' = [req EXCEPT ![p] = Request("createProduct", input)]
    /\ IF input.price <= 0
       THEN /\ Finish(p, ProductResult(Null, "Price must be positive", FALSE))
            /\ UNCHANGED <<products, nextProductId>>
       ELSE IF StockOf(input) < 0
       THEN /\ Finish(p, ProductResult(Null, "Stock cannot be negative", FALSE))
            /\ UNCHANGED <<products, nextProductId>>
       ELSE /\ ProductRoom
            /\ products' = products \cup
                   {[id |-> nextProductId, name |-> input.name,
                     price |-> PriceToCents(input.price), stock |-> StockOf(input)]}
            /\ nextProductId' = nextProductId + 1
            /\ Finish(p, ProductResult(
                   [id |-> nextProductId, name |-> input.name,
                    price1000 |-> input.price, stock |-> StockOf(input)],
                   "Product created successfully", TRUE))
    /\ UNCHANGED <<customers, orders, nextCustomerId, nextOrderId, txCustomers,
                   txOrders, needsRollback, bulkVars, orderVars>>

\* The insert fails for a reason of the store.
CreateProductFault(p, input) ==
    /\ NoResponsePending
    /\ pc[p] = "idle"
    /\ input.price > 0
    /\ StockOf(input) >= 0
    /\ req' = [req EXCEPT ![p] = Request("createProduct", input)]
    /\ Caught(p, ProductResult(Null, "Error creating product: " \o StoreFaultText, FALSE))
    /\ UNCHANGED <<storeVars, txCustomers, txOrders, needsRollback, bulkVars, orderVars>>

\* ------------------------------------------------------------- createOrder
OrderResult(o, message, success) ==
    [op |-> "createOrder", order |-> o, message |-> message, success |-> success]

\* Order.calculate_total: the prices of the products now associated with the row.
CalculateTotal(row) == SumPrices({r \in products : r.id \in row.products})

\* order_date is declared auto_now_add: on the insert the field takes the
\* current time, whatever value the instance was given.
AutoNowAdd(given, now, add) == IF add THEN now ELSE given

\* Order.save: a row without a primary key is written with total_amount 0.00.
\* newId is the key the insert assigns, now the time of the write.
OrderSave(o, newId, now) ==
    IF o.id = 0
    THEN [o EXCEPT !.id = newId,
                   !.total_amount = 0,
                   !.order_date = AutoNowAdd(o.order_date, now, TRUE)]
    ELSE [o EXCEPT !.order_date = AutoNowAdd(o.order_date, now, FALSE)]

\* The Order row of handler p as p itself sees it.
OwnRow(p) == CHOOSE o \in orders \cup txOrders[p] : o.id = order[p].id

\* A write of the Order row without the atomic block: committed at once.
WriteOrderAutocommit(p, row) ==
    /\ orders' = {o \in orders : o.id # row.id} \cup {row}
    /\ UNCHANGED txOrders

\* A write of the Order row inside "with transaction.atomic()": it stays in the
\* handler's transaction until the block exits.
WriteOrder(p, row) ==
    /\ txOrders' = [txOrders EXCEPT ![p] = {o \in txOrders[p] : o.id # row.id} \cup {row}]
    /\ UNCHANGED orders

\* The instance as the handler holds it: the row without its association.
Instance(row) ==
    [id |-> row.id, customer |-> row.customer, total_amount |-> row.total_amount,
     order_date |-> row.order_date]

\* A lookup that finds every customer.
CustomerNeverMissing(id) == FALSE

\* "Customer.objects.get(id=input.customer_id)" raises Customer.DoesNotExist.
CustomerMissing(id) == ~\E c \in customers : c.id = id

\* CreateOrder.mutate: the customer lookup, then the empty-list check.
CreateOrderResolveCustomer(p, input) ==
    /\ NoResponsePending
    /\ pc[p] = "idle"
    /\ req' = [req EXCEPT ![p] = Request("createOrder", input)]
    /\ IF CustomerMissing(input.customer_id)
       THEN Finish(p, OrderResult(Null, "Invalid customer ID", FALSE))
       ELSE IF input.product_ids = << >>
       THEN Finish(p, OrderResult(Null, "At least one product is required", FALSE))
       ELSE /\ OrderRoom
            /\ pc' = [pc EXCEPT ![p] = "co_products"]
            /\ UNCHANGED result
    /\ UNCHANGED <<storeVars, txCustomers, txOrders, needsRollback, bulkVars, orderVars>>

\* "len(products) != len(input.product_ids)"
NothingResolved(found, ids) == found = {}

ProductsMismatch(found, ids) == Cardinality(found) # Len(ids)

\* Product.objects.filter(id__in=...) evaluated by len(): the rows whose id is
\* in the list, each once, counted against the length of the list.
CreateOrderResolveProducts(p) ==
    /\ NoResponsePending
    /\ pc[p] = "co_products"
    /\ LET found == {r \in products : r.id \in SeqToSet(req[p].input.product_ids)}
       IN  IF ProductsMismatch(found, req[p].input.product_ids)
           THEN /\ Finish(p, OrderResult(Null, "One or more invalid product IDs", FALSE))
                /\ UNCHANGED resolved
           ELSE /\ resolved' = [resolved EXCEPT ![p] = found]
                /\ pc' = [pc EXCEPT ![p] = "co_create"]
                /\ UNCHANGED result
    /\ UNCHANGED <<storeVars, req, txCustomers, txOrders, needsRollback, bulkVars, order>>

\* Order.objects.create with the provisional total and the order date.
CreateOrderCreate(p, now) ==
    /\ NoResponsePending
    /\ pc[p] = "co_create"
    /\ OrderRoom
    /\ LET given == IF "order_date" \in DOMAIN req[p].input THEN req[p].input.order_date ELSE now
           fresh == [id |-> 0, customer |-> req[p].input.customer_id, products |-> {},
                     total_amount |-> SumPrices(resolved[p]), order_date |-> given]
           row == OrderSave(fresh, nextOrderId, now)
       IN  /\ WriteOrder(p, row)
           /\ order' = [order EXCEPT ![p] = Instance(row)]
    /\ nextOrderId' = nextOrderId + 1
    /\ pc' = [pc EXCEPT ![p] = "co_set"]
    /\ UNCHANGED <<customers, products, nextCustomerId, nextProductId, req, txCustomers,
                   needsRollback, bulkVars, resolved, result>>

\* An association that takes one unit of stock from each product it names.
ProductsAfterSetDecrement(rows, chosen) ==
    {IF r \in chosen THEN [r EXCEPT !.stock = r.stock - 1] ELSE r : r \in rows}

\* The Product rows after order.products.set(products): the call writes the
\* association table alone.
ProductsAfterSet(rows, chosen) == rows

\* order.products.set(products)
CreateOrderSetProducts(p) ==
    /\ NoResponsePending
    /\ pc[p] = "co_set"
    /\ WriteOrder(p, [OwnRow(p) EXCEPT !.products = {r.id : r \in resolved[p]}])
    /\ products' = ProductsAfterSet(products, resolved[p])
    /\ pc' = [pc EXCEPT ![p] = "co_total"]
    /\ UNCHANGED <<customers, nextCustomerId, nextProductId, nextOrderId, req,
                   txCustomers, needsRollback, bulkVars, orderVars, result>>

\* Order.update_total's effect on the row.
UpdateTotalSkipped(row, now) == row

UpdateTotal(row, now) ==
    OrderSave([row EXCEPT !.total_amount = CalculateTotal(row)], row.id, now)

\* order.update_total()
CreateOrderUpdateTotal(p, now) ==
    /\ NoResponsePending
    /\ pc[p] = "co_total"
    /\ LET row == UpdateTotal(OwnRow(p), now)
       IN  /\ WriteOrder(p, row)
           /\ order' = [order EXCEPT ![p] = Instance(row)]
    /\ pc' = [pc EXCEPT ![p] = "co_commit"]
    /\ UNCHANGED <<customers, products, nextCustomerId, nextProductId, nextOrderId, req,
                   txCustomers, needsRollback, bulkVars, resolved, result>>

\* A commit that loses the pending rows.
CommitLost(rows, pending) == rows

\* The committed rows after the atomic block's commit: the pending rows are
\* now in the store, in place of any older version.
Commit(rows, pending) == {o \in rows : \A t \in pending : t.id # o.id} \cup pending

\* The atomic block exits: the transaction commits and the order is returned.
CreateOrderCommit(p) ==
    /\ NoResponsePending
    /\ pc[p] = "co_commit"
    /\ orders' = Commit(orders, txOrders[p])
    /\ txOrders' = [txOrders EXCEPT ![p] = {}]
    /\ Finish(p, OrderResult(order[p], "Order created successfully", TRUE))
    /\ UNCHANGED <<customers, products, nextCustomerId, nextProductId, nextOrderId, req,
                   txCustomers, needsRollback, bulkVars, orderVars>>

\* A store call inside the atomic block raises: the block rolls back and the
\* outer except clause answers.
CreateOrderFault(p) ==
    /\ NoResponsePending
    /\ pc[p] \in {"co_create", "co_set", "co_total", "co_commit"}
    /\ txOrders' = [txOrders EXCEPT ![p] = {}]
    /\ Caught(p, OrderResult(Null, "Error creating order: " \o StoreFaultText, FALSE))
    /\ UNCHANGED <<storeVars, req, txCustomers, needsRollback, bulkVars, orderVars>>

\* ------------------------------------------------------------- queryOrders
UpperCase == <<"A", "B", "C", "D", "E", "F", "G", "H", "I", "J", "K", "L", "M",
               "N", "O", "P", "Q", "R", "S", "T", "U", "V", "W", "X", "Y", "Z">>
LowerCase == <<"a", "b", "c", "d", "e", "f", "g", "h", "i", "j", "k", "l", "m",
               "n", "o", "p", "q", "r", "s", "t", "u", "v", "w", "x", "y", "z">>

Lower(c) ==
    IF \E k \in 1 .. Len(UpperCase) : UpperCase[k] = c
    THEN LowerCase[CHOOSE k \in 1 .. Len(UpperCase) : UpperCase[k] = c]
    ELSE c

\* lookup_expr='icontains': value occurs in text, letter case aside.
IContains(text, value) ==
    \E i \in 0 .. (Len(text) - Len(value)) :
        \A j \in 1 .. Len(value) : Lower(text[i + j]) = Lower(value[j])

\* A queryset of orders is the number of times each committed order is in it.
AllOrders == [id \in {o.id : o \in orders} |-> 1]

OrderRow(id) == CHOOSE o \in orders : o.id = id

\* product_name = CharFilter(field_name='products__name', lookup_expr='icontains'):
\* queryset.filter(products__name__icontains=value), a join with the associated
\* products that yields an order once for each product matching.  An empty value
\* is skipped by the filter.
FilterProductName(qs, value) ==
    IF value = << >> THEN qs
    ELSE [id \in DOMAIN qs |->
             qs[id] * Cardinality({r \in products :
                                      /\ r.id \in OrderRow(id).products
                                      /\ IContains(r.name, value)})]

\* OrderFilter.filter_by_product_id: the same join on the product id, then
\* distinct(); a falsy value leaves the queryset as it is.
FilterByProductId(qs, value) ==
    IF value # 0
    THEN [id \in DOMAIN qs |->
             IF qs[id] > 0 /\ value \in OrderRow(id).products THEN 1 ELSE 0]
    ELSE qs

\* The filters of the query, applied in the order the FilterSet declares them.
OrderFilterSet(filters) ==
    LET named == IF "product_name" \in DOMAIN filters
                 THEN FilterProductName(AllOrders, filters.product_name)
                 ELSE AllOrders
    IN  IF "product_id" \in DOMAIN filters
        THEN FilterByProductId(named, filters.product_id)
        ELSE named

NameValues == {<<"w">>, <<"A">>, <<"x">>, << >>}
ProductIdValues == {0, 1, 2}
OrderFilters ==
    [product_name : NameValues] \cup [product_id : ProductIdValues]
        \cup [product_name : NameValues, product_id : ProductIdValues]

\* all_orders with a filter: the rows of the filtered queryset.
QueryOrders(p, filters) ==
    /\ NoResponsePending
    /\ pc[p] = "idle"
    /\ req' = [req EXCEPT ![p] = Request("queryOrders", filters)]
    /\ Finish(p, [op |-> "queryOrders", rows |-> OrderFilterSet(filters)])
    /\ UNCHANGED <<storeVars, txCustomers, txOrders, needsRollback, bulkVars, orderVars>>

\* ----------------------------------------------------------- queryProducts
\* name = CharFilter(lookup_expr='icontains'); an empty string counts as absent.
NameIContains(r, value) == value = << >> \/ IContains(r.name, value)

\* NumberFilter on price and on stock: exact, gte and lte.  Prices in cents.
PriceExact(r, value) == r.price = value
PriceGt(r, value) == r.price > value
PriceGte(r, value) == r.price >= value
PriceLte(r, value) == r.price <= value
StockExact(r, value) == r.stock = value
StockGte(r, value) == r.stock >= value
StockLte(r, value) == r.stock <= value

\* The lookup of the declared filter with this key, on the row r.
Lookup(r, key, value) ==
    CASE key = "name" -> NameIContains(r, value)
      [] key = "price" -> PriceExact(r, value)
      [] key = "price__gte" -> PriceGte(r, value)
      [] key = "price__lte" -> PriceLte(r, value)
      [] key = "stock" -> StockExact(r, value)
      [] key = "stock__gte" -> StockGte(r, value)
      [] key = "stock__lte" -> StockLte(r, value)

\* Filter.filter: a filter whose key is absent from the query is skipped, one
\* that is present narrows the queryset to the rows passing its lookup.
ApplyLookup(qs, filters, key) ==
    IF key \in DOMAIN filters THEN {r \in qs : Lookup(r, key, filters[key])} ELSE qs

\* ProductFilter.filter_low_stock on a value that is false.
LowStockFalseExcludes(queryset, value) ==
    IF value THEN {r \in queryset : r.stock < 10} ELSE {r \in queryset : r.stock >= 10}

\* ProductFilter.filter_low_stock: "if value: return queryset.filter(stock__lt=10)",
\* else the queryset as it came.
FilterLowStock(queryset, value) ==
    IF value THEN {r \in queryset : r.stock < 10} ELSE queryset

\* ProductFilter: the declared filters, each applied to the queryset the one
\* before it returned.
ProductFilterSet(filters) ==
    LET q1 == ApplyLookup(products, filters, "name")
        q2 == ApplyLookup(q1, filters, "price")
        q3 == ApplyLookup(q2, filters, "price__gte")
        q4 == ApplyLookup(q3, filters, "price__lte")
        q5 == ApplyLookup(q4, filters, "stock")
        q6 == ApplyLookup(q5, filters, "stock__gte")
        q7 == ApplyLookup(q6, filters, "stock__lte")
    IN  IF "low_stock" \in DOMAIN filters
        THEN FilterLowStock(q7, filters.low_stock)
        ELSE q7

\* Values of the product filters: prices in cents on and off the stored
\* prices, stocks on both sides of the low-stock threshold.
PriceValues == {550, 551, 1000}
StockValues == {0, 9, 10}
ProductFilters ==
    [low_stock : BOOLEAN]
        \cup [price : PriceValues] \cup [price__gte : PriceValues] \cup [price__lte : PriceValues]
        \cup [stock : StockValues] \cup [stock__gte : StockValues] \cup [stock__lte : StockValues]
        \cup [name : {<<"w">>, << >>}, low_stock : BOOLEAN]
        \cup [price__gte : PriceValues, price__lte : PriceValues]
        \cup [stock__gte : StockValues, stock__lte : StockValues]
        \cup [price__lte : PriceValues, stock__gte : StockValues, low_stock : BOOLEAN]
        \cup [price : PriceValues, stock : StockValues, low_stock : BOOLEAN]

\* all_products with a filter: the rows of the filtered queryset.
QueryProducts(p, filters) ==
    /\ NoResponsePending
    /\ pc[p] = "idle"
    /\ req' = [req EXCEPT ![p] = Request("queryProducts", filters)]
    /\ Finish(p, [op |-> "queryProducts", rows |-> ProductFilterSet(filters)])
    /\ UNCHANGED <<storeVars, txCustomers, txOrders, needsRollback, bulkVars, orderVars>>

\* ------------------------------------------------------------------ return
\* The result has been handed to the caller; the handler takes the next request.
Return(p) ==
    /\ pc[p] = "done"
    /\ pc' = [pc EXCEPT ![p] = "idle"]
    /\ req' = [req EXCEPT ![p] = NoRequest]
    /\ result' = [result EXCEPT ![p] = NoResult]
    /\ idx' = [idx EXCEPT ![p] = 0]
    /\ created' = [created EXCEPT ![p] = << >>]
    /\ errors' = [errors EXCEPT ![p] = << >>]
    /\ resolved' = [resolved EXCEPT ![p] = {}]
    /\ order' = [order EXCEPT ![p] = Null]
    /\ UNCHANGED <<storeVars, txCustomers, txOrders, needsRollback>>

CustomerStep(p, singles, batches) ==
    \/ \E input \in singles : CreateCustomerValidate(p, input)
    \/ CreateCustomerInsert(p)
    \/ CreateCustomerFault(p)
    \/ \E input \in batches : BulkBegin(p, input)
    \/ BulkValidate(p)
    \/ BulkInsert(p)
    \/ BulkInsertFault(p)
    \/ BulkExit(p)
    \/ BulkExitFault(p)

ProductStep(p) ==
    \/ \E input \in ProductInputs : CreateProduct(p, input)
    \/ \E input \in ProductInputs : CreateProductFault(p, input)

OrderStep(p) ==
    \/ \E input \in OrderInputs : CreateOrderResolveCustomer(p, input)
    \/ CreateOrderResolveProducts(p)
    \/ \E now \in Times : CreateOrderCreate(p, now)
    \/ CreateOrderSetProducts(p)
    \/ \E now \in Times : CreateOrderUpdateTotal(p, now)
    \/ CreateOrderCommit(p)
    \/ CreateOrderFault(p)

\* All four mutations, on every handler.
Next ==
    \E p \in Procs :
        \/ CustomerStep(p, CustomerSamples, BatchSamples)
        \/ ProductStep(p)
        \/ OrderStep(p)
        \/ Return(p)

Spec == Init /\ [][Next]_vars

\* The two customer mutations alone, over every input within the bounds.
CustomerNext ==
    \E p \in Procs :
        \/ CustomerStep(p, CustomerInputs, BatchInputs)
        \/ Return(p)

CustomerSpec == Init /\ [][CustomerNext]_vars

\* One handler building a store of named products and an order, and querying it.
NamedProductInputs ==
    {[name |-> <<"W", "a">>, price |-> 5500, stock |-> 5],
     [name |-> <<"w", "A", "b">>, price |-> 10000],
     [name |-> <<"G">>, price |-> 10000, stock |-> 12]}

QueryNext ==
    \/ \E input \in CustomerSamples : CreateCustomerValidate("r1", input)
    \/ CreateCustomerInsert("r1")
    \/ \E input \in NamedProductInputs : CreateProduct("r1", input)
    \/ \E input \in OrderInputs : CreateOrderResolveCustomer("r1", input)
    \/ CreateOrderResolveProducts("r1")
    \/ \E now \in Times : CreateOrderCreate("r1", now)
    \/ CreateOrderSetProducts("r1")
    \/ \E now \in Times : CreateOrderUpdateTotal("r1", now)
    \/ CreateOrderCommit("r1")
    \/ \E filters \in OrderFilters : QueryOrders("r1", filters)
    \/ Return("r1")

QuerySpec == Init /\ [][QueryNext]_vars

\* One handler stocking the store with products and querying them.
StockedProductInputs ==
    {[name |-> <<"W", "a">>, price |-> 5500, stock |-> 5],
     [name |-> <<"w", "A", "b">>, price |-> 10000, stock |-> 9],
     [name |-> <<"G">>, price |-> 10000, stock |-> 10],
     [name |-> <<"G">>, price |-> 5500, stock |-> 12],
     [name |-> <<"W", "a">>, price |-> 10000]}

ProductQueryNext ==
    \/ \E input \in StockedProductInputs : CreateProduct("r1", input)
    \/ \E filters \in ProductFilters : QueryProducts("r1", filters)
    \/ Return("r1")

ProductQuerySpec == Init /\ [][ProductQueryNext]_vars

\* ================================================================== claims
\* The handler p has just returned the result of the mutation op.
Returned(p, op) == pc[p] = "done" /\ result[p].op = op

\* The price of the committed product with this id, in cents.
PriceOf(id) == (CHOOSE r \in products : r.id = id).price

\* The sum of the prices of the products with these ids.
PriceSum(ids) == SumOver([id \in ids |-> PriceOf(id)], ids)

\* Some id of the list is the id of no committed product.
HasUnknownId(ids) == \E i \in 1 .. Len(ids) : ~\E r \in products : r.id = ids[i]

InvalidProductsText == "One or more invalid product IDs"

\* C1: every order a createOrder call returned with success=true has, in the
\* returned instance and in the committed row, total_amount equal to the sum of
\* the prices of the products associated with it; and so has every committed
\* order at any later time, whatever total the row was first written with.
C1_TotalIsSumOfPrices ==
    /\ \A p \in Procs :
         (Returned(p, "createOrder") /\ result[p].success) =>
            \E o \in orders :
                /\ o.id = result[p].order.id
                /\ o.total_amount = PriceSum(o.products)
                /\ result[p].order.total_amount = PriceSum(o.products)
    /\ \A o \in orders : o.total_amount = PriceSum(o.products)

\* C1 witness: an order of two products of 5.50 and 10.00 is returned with
\* total 15.50.
C1_Witness ==
    \E p \in Procs :
        /\ Returned(p, "createOrder")
        /\ result[p].success
        /\ result[p].order.total_amount = 1550
        /\ \E o \in orders : o.id = result[p].order.id /\ Cardinality(o.products) = 2

\* C2: no two committed Customers have the same email, whatever the
\* interleaving of the checks and inserts of concurrent createCustomer and
\* bulkCreateCustomers requests.
C2_EmailUnique ==
    \A c1 \in customers : \A c2 \in customers : c1.email = c2.email => c1 = c2

\* C2 witness: two requests passed the email check for the same email and the
\* store rejected the second insert.
C2_Witness ==
    \E p \in Procs :
        /\ Returned(p, "createCustomer")
        /\ result[p].message = "Error creating customer: " \o IntegrityErrorText
        /\ \E c \in customers : c.email = req[p].input.email

\* A step of createOrder by handler p.
OrderStepOf(p) ==
    /\ pc'[p] # pc[p]
    /\ \/ pc[p] \in {"co_products", "co_create", "co_set", "co_total", "co_commit"}
       \/ pc[p] = "idle" /\ req'[p].op = "createOrder"

\* C3: a createOrder request whose id list holds an id of no existing Product
\* writes nothing: each of its steps leaves the orders, their associations and
\* the open transactions as they were, and it ends with success=false and
\* order=null.
C3_UnknownProductNoOrder ==
    [][\A p \in Procs :
          (OrderStepOf(p) /\ HasUnknownId(req'[p].input.product_ids)) =>
             /\ orders' = orders
             /\ txOrders' = txOrders
             /\ nextOrderId' = nextOrderId
             /\ pc'[p] \in {"co_products", "done"}
             /\ pc'[p] = "done" =>
                   /\ result'[p].success = FALSE
                   /\ result'[p].order = Null
                   /\ order'[p] = Null]_vars

\* C3 witness: a request for an existing product and an unknown one was refused.
C3_Witness ==
    \E p \in Procs :
        /\ Returned(p, "createOrder")
        /\ result[p].message = InvalidProductsText
        /\ HasUnknownId(req[p].input.product_ids)
        /\ \E r \in products : r.id = req[p].input.product_ids[1]

\* The error strings of a store outage, as against a rejected insert.
OutageErrors == {ItemError(i, StoreFaultText) : i \in 1 .. MaxBatch}

TransactionFailedResult ==
    BulkResult(<< >>, <<"Transaction failed: " \o StoreFaultText>>, FALSE)

\* C4: every customer listed in the customers of a bulkCreateCustomers result is
\* in the committed store when the call has returned, also when an item of the
\* batch met a fault.  Stated for the fault the claim names, the insert the
\* unique constraint rejects after the email check passed: calls that met a
\* store outage are left aside.
C4_ListedCustomersCommitted ==
    \A p \in Procs :
        (/\ Returned(p, "bulkCreateCustomers")
         /\ \A i \in 1 .. Len(result[p].errors) : result[p].errors[i] \notin OutageErrors)
            => \A i \in 1 .. Len(result[p].customers) : result[p].customers[i] \in customers

\* Validation as the claim words it: the email is already in the store or was
\* created earlier in the same batch, or the phone is non-empty and malformed.
FailsValidation(p, item) ==
    \/ item.email \in {c.email : c \in customers}
    \/ \E i \in 1 .. Len(created[p]) : created[p][i].email = item.email
    \/ PhoneRejected(item.phone)

\* A step of bulkCreateCustomers by handler p on the item at idx[p].
ItemStepOf(p) == pc[p] \in {"bc_check", "bc_create"} /\ pc'[p] # pc[p]

OneMoreError(p) ==
    /\ Len(errors'[p]) = Len(errors[p]) + 1
    /\ SubSeq(errors'[p], 1, Len(errors[p])) = errors[p]
    /\ created'[p] = created[p]

OneMoreCustomer(p) ==
    /\ Len(created'[p]) = Len(created[p]) + 1
    /\ SubSeq(created'[p], 1, Len(created[p])) = created[p]
    /\ errors'[p] = errors[p]

MovesOn(p) ==
    /\ idx'[p] = idx[p] + 1
    /\ pc'[p] = IF idx[p] < Len(req[p].input) THEN "bc_check" ELSE "bc_exit"

\* The call has met a store outage.
Outage(p) ==
    \/ \E i \in 1 .. Len(errors'[p]) : errors'[p][i] \in OutageErrors
    \/ pc'[p] = "done" /\ result'[p] = TransactionFailedResult

ItemFaults(p) ==
    \/ pc[p] = "bc_check" /\ needsRollback[p]
    \/ pc[p] = "bc_create" /\ customers' \cup txCustomers'[p] = customers \cup txCustomers[p]

C6_RefusedIffUnknownId ==
    \A p \in Procs :
        (/\ Returned(p, "createOrder")
         /\ \E c \in customers : c.id = req[p].input.customer_id
         /\ req[p].input.product_ids # << >>)
            => (result[p].message = InvalidProductsText
                    <=> HasUnknownId(req[p].input.product_ids))

\* C7: the Order a successful createOrder call with an explicit orderDate
\* persisted, and the instance it returned, carry the order date supplied.
C7_SuppliedOrderDateKept ==
    \A p \in Procs :
        (/\ Returned(p, "createOrder")
         /\ result[p].success
         /\ "order_date" \in DOMAIN req[p].input)
            => /\ result[p].order.order_date = req[p].input.order_date
               /\ \A o \in orders :
                     o.id = result[p].order.id => o.order_date = req[p].input.order_date

\* C8: a queryOrders call with the product_name filter, the product_id filter
\* or both returns each order at most once.
C8_EachOrderOnce ==
    \A p \in Procs :
        Returned(p, "queryOrders") =>
            \A id \in DOMAIN result[p].rows : result[p].rows[id] <= 1

\* The places a handler can stand at, and the four mutations.
Locations ==
    {"idle", "done", "cc_create", "bc_check", "bc_create", "bc_exit",
     "co_products", "co_create", "co_set", "co_total", "co_commit"}

Mutations == {"createCustomer", "bulkCreateCustomers", "createProduct", "createOrder"}

\* The entity of a single-entity result.
EntityOf(res) ==
    IF res.op = "createCustomer" THEN res.customer
    ELSE IF res.op = "createProduct" THEN res.product
    ELSE res.order

\* The handler p has a store write under way: the insert of createCustomer or
\* createProduct, or a write of createOrder's atomic block.
WriteUnderWay(p) ==
    \/ pc[p] \in {"cc_create", "co_create", "co_set", "co_total", "co_commit"}
    \/ /\ pc[p] = "idle"
       /\ req'[p].op = "createProduct"
       /\ req'[p].input.price > 0
       /\ StockOf(req'[p].input) >= 0

\* The step of p leaves the committed store as it was: the write did not succeed.
NothingCommitted == customers' = customers /\ products' = products /\ orders' = orders

\* C9: no mutation lets a fault reach the caller: a handler is only ever at a
\* place of its mutation or has returned a result of that mutation, with the
\* fields of its kind; and a step of a single-entity mutation whose store write
\* fails, leaving nothing committed, ends the call with success=false and a
\* null entity.
C9_FaultsBecomeResults ==
    /\ [](\A p \in Procs :
            /\ pc[p] \in Locations
            /\ pc[p] = "done" /\ req[p].op \in Mutations =>
                  /\ result[p].op = req[p].op
                  /\ result[p].success \in BOOLEAN
                  /\ IF result[p].op = "bulkCreateCustomers"
                     THEN DOMAIN result[p] = {"op", "customers", "errors", "success"}
                     ELSE "message" \in DOMAIN result[p])
    /\ [][\A p \in Procs :
            (/\ WriteUnderWay(p)
             /\ pc'[p] # pc[p]
             /\ pc'[p] \notin {"co_set", "co_total", "co_commit"}
             /\ NothingCommitted)
                => /\ pc'[p] = "done"
                   /\ result'[p].success = FALSE
                   /\ EntityOf(result'[p]) = Null]_vars

\* C9 witness: the store failed the insert of a createProduct call with valid
\* input while another product is in the store, and the call returned a
\* failure result with no product.
C9_Witness ==
    \E p \in Procs :
        /\ Returned(p, "createProduct")
        /\ result[p] = ProductResult(Null, "Error creating product: " \o StoreFaultText, FALSE)
        /\ req[p].input.price > 0
        /\ products # {}

\* C10: a reader of the committed store sees an order only whole, with a
\* non-empty product set and the total of those products' prices; and a
\* createOrder call that failed after writing its row has left no Order row
\* and no association behind, committed or pending.
C10_OrderAllOrNothing ==
    /\ \A o \in orders : o.products # {} /\ o.total_amount = PriceSum(o.products)
    /\ \A p \in Procs :
         (Returned(p, "createOrder") /\ ~result[p].success) =>
            /\ txOrders[p] = {}
            /\ result[p].order = Null
            /\ order[p] # Null => ~\E o \in orders : o.id = order[p].id

\* C10 witness: a createOrder call failed after its row was written, and none
\* of it is in the store.
C10_Witness ==
    \E p \in Procs :
        /\ Returned(p, "createOrder")
        /\ ~result[p].success
        /\ order[p] # Null
        /\ orders = {}

\* The query without its low_stock key.
WithoutLowStock(filters) == [k \in DOMAIN filters \ {"low_stock"} |-> filters[k]]

\* C11: a queryProducts call with low_stock=false returns the same products as
\* the same query without the low_stock key, whatever the other filter keys
\* and the store.
C11_LowStockFalseIsNoOp ==
    \A p \in Procs :
        (/\ Returned(p, "queryProducts")
         /\ "low_stock" \in DOMAIN req[p].input
         /\ req[p].input.low_stock = FALSE)
            => result[p].rows = ProductFilterSet(WithoutLowStock(req[p].input))

\* C11 witness: a query with low_stock=false and another key returned a
\* product whose stock is low and one whose stock is not.
C11_Witness ==
    \E p \in Procs :
        /\ Returned(p, "queryProducts")
        /\ DOMAIN req[p].input = {"name", "low_stock"}
        /\ req[p].input.low_stock = FALSE
        /\ \E r \in result[p].rows : r.stock < 10
        /\ \E r \in result[p].rows : r.stock >= 10

\* A product satisfies the filter with this key and value, as the keys are
\* documented.
Satisfies(r, key, value) ==
    CASE key = "name" -> value = << >> \/ IContains(r.name, value)
      [] key = "price" -> r.price = value
      [] key = "price__gte" -> r.price >= value
      [] key = "price__lte" -> r.price <= value
      [] key = "stock" -> r.stock = value
      [] key = "stock__gte" -> r.stock >= value
      [] key = "stock__lte" -> r.stock <= value
      [] key = "low_stock" -> value => r.stock < 10

\* C12: queryProducts returns exactly the products of the store that satisfy
\* every filter supplied: inclusive bounds, exact matches, low_stock=true for
\* stock < 10, and no constraint from an absent key.
C12_FiltersConjoin ==
    \A p \in Procs :
        Returned(p, "queryProducts") =>
            result[p].rows =
                {r \in products :
                    \A key \in DOMAIN req[p].input : Satisfies(r, key, req[p].input[key])}

\* C12 witness: a query with three keys, low_stock=true among them, returned
\* one product of a store of two, the other failing an inclusive bound it
\* meets exactly on the first.
C12_Witness ==
    \E p \in Procs :
        /\ Returned(p, "queryProducts")
        /\ DOMAIN req[p].input = {"price__lte", "stock__gte", "low_stock"}
        /\ req[p].input.low_stock
        /\ Cardinality(products) = 2
        /\ \E r \in result[p].rows :
              /\ result[p].rows = {r}
              /\ r.price = req[p].input.price__lte
              /\ r.stock = req[p].input.stock__gte

\* C13: every Product of the store has a price above 0.00 and a stock of at
\* least 0; a createProduct call with price <= 0 or stock < 0 returns
\* success=false with no product, and a product created without a stock has
\* stock 0.
C13_ProductsValid ==
    /\ \A r \in products : r.price > 0 /\ r.stock >= 0
    /\ \A p \in Procs :
         Returned(p, "createProduct") =>
            /\ (req[p].input.price <= 0 \/ StockOf(req[p].input) < 0)
                  => (~result[p].success /\ result[p].product = Null)
            /\ (result[p].success /\ "stock" \notin DOMAIN req[p].input)
                  => \A r \in products : r.id = result[p].product.id => r.stock = 0

\* C14: no step of a createOrder call changes a Product or a Customer; the
\* one change it makes to the committed store is, on success, the new Order
\* with its products.
C14_OrderTouchesOrdersOnly ==
    [][\A p \in Procs :
          OrderStepOf(p) =>
             /\ products' = products
             /\ customers' = customers
             /\ orders' # orders =>
                   /\ pc'[p] = "done"
                   /\ result'[p].success
                   /\ \E o \in orders' :
                         /\ orders' = orders \cup {o}
                         /\ o.id = result'[p].order.id
                         /\ \A old \in orders : old.id # o.id]_vars

\* C14 witness: an order was created for a product with stock 5, and the
\* product is in the store with stock 5.
C14_Witness ==
    \E p \in Procs :
        /\ Returned(p, "createOrder")
        /\ result[p].success
        /\ \E o \in orders : \E r \in products :
              /\ o.id = result[p].order.id
              /\ r.id \in o.products
              /\ r.stock = 5

\* The step takes up a createOrder request on handler p.
TakesUpOrder(p) == pc[p] = "idle" /\ pc'[p] # pc[p] /\ req'[p].op = "createOrder"

\* The step leaves the store as it was, pending writes included.
NoWrite == UNCHANGED <<storeVars, txCustomers, txOrders>>

\* C15: a createOrder request with a nonexistent customer returns "Invalid
\* customer ID" whatever its product list; one with an existing customer and
\* an empty list returns "At least one product is required"; a call refused by
\* either check or by the product lookup writes nothing; and every Order of the
\* store has at least one product.
C15_ChecksInOrder ==
    /\ [](\A o \in orders : o.products # {})
    /\ [][\A p \in Procs :
            /\ (TakesUpOrder(p) /\ ~\E c \in customers : c.id = req'[p].input.customer_id)
                  => /\ pc'[p] = "done"
                     /\ result'[p] = OrderResult(Null, "Invalid customer ID", FALSE)
            /\ (TakesUpOrder(p) /\ (\E c \in customers : c.id = req'[p].input.customer_id)
                    /\ req'[p].input.product_ids = << >>)
                  => /\ pc'[p] = "done"
                     /\ result'[p] = OrderResult(Null, "At least one product is required", FALSE)
            /\ (TakesUpOrder(p) /\ pc'[p] = "done") => NoWrite
            /\ (pc[p] = "co_products" /\ pc'[p] = "done")
                  => (NoWrite /\ result'[p] = OrderResult(Null, InvalidProductsText, FALSE))]_vars

\* C15 witness: a request with a nonexistent customer and an empty product
\* list was answered "Invalid customer ID" while the store holds a customer.
C15_Witness ==
    \E p \in Procs :
        /\ Returned(p, "createOrder")
        /\ result[p].message = "Invalid customer ID"
        /\ req[p].input.product_ids = << >>
        /\ customers # {}

\* The step takes up a createCustomer request on handler p.
TakesUpCustomer(p) == pc[p] = "idle" /\ pc'[p] # pc[p] /\ req'[p].op = "createCustomer"

\* C16: a createCustomer call whose email belongs to a Customer of the store
\* returns success=false with no customer and the message that the email
\* already exists, and leaves the Customers as they were; a call whose phone
\* is non-empty and in neither accepted format returns success=false with no
\* customer and leaves the Customers as they were.
C16_RejectedCustomerWritesNothing ==
    [][\A p \in Procs :
          /\ (TakesUpCustomer(p) /\ \E c \in customers : c.email = req'[p].input.email)
                => /\ pc'[p] = "done"
                   /\ result'[p] = CustomerResult(Null, "Email already exists", FALSE)
                   /\ customers' = customers
          /\ (TakesUpCustomer(p) /\ req'[p].input.phone # << >>
                  /\ ~PhoneMatches(req'[p].input.phone))
                => /\ pc'[p] = "done"
                   /\ result'[p].success = FALSE
                   /\ result'[p].customer = Null
                   /\ customers' = customers
                   /\ UNCHANGED <<txCustomers, nextCustomerId>>]_vars

\* C16 witness: a createCustomer call was refused because its email is in the
\* store, which holds that one customer still.
C16_Witness ==
    \E p \in Procs :
        /\ Returned(p, "createCustomer")
        /\ result[p].message = "Email already exists"
        /\ \E c \in customers : c.email = req[p].input.email /\ customers = {c}

\* The table a single-entity mutation writes to.
TableOf(op) ==
    IF op = "createCustomer" THEN customers
    ELSE IF op = "createProduct" THEN products
    ELSE orders

\* C17: in every result of createCustomer, createProduct and createOrder,
\* success is true exactly when the entity is not null, and the entity of a
\* successful result is in the committed store when the call returns.
C17_SuccessIffEntity ==
    \A p \in Procs :
        (pc[p] = "done" /\ result[p].op \in {"createCustomer", "createProduct", "createOrder"})
            => /\ result[p].success <=> EntityOf(result[p]) # Null
               /\ result[p].success =>
                     \E row \in TableOf(result[p].op) : row.id = EntityOf(result[p]).id

\* C17 witness: a createOrder call returned an order while the other handler
\* has an insert of a customer under way.
C17_Witness ==
    \E p \in Procs : \E q \in Procs :
        /\ Returned(p, "createOrder")
        /\ result[p].success
        /\ result[p].order # Null
        /\ pc[q] = "cc_create"

\* The reasons an item's error string can carry.
ErrorReasons ==
    {"Email already exists", "Invalid phone format", IntegrityErrorText,
     StoreFaultText, BrokenTransactionText}

\* The error string names the 1-based position i.
NamesPosition(err, i) ==
    \E reason \in ErrorReasons : err = "Customer " \o ToString(i) \o ": " \o reason

\* The positions 1 .. n that kind gives this tag, in increasing order.
RECURSIVE PositionsOf(_, _, _)
PositionsOf(kind, tag, n) ==
    IF n = 0 THEN << >>
    ELSE IF kind[n] = tag THEN Append(PositionsOf(kind, tag, n - 1), n)
    ELSE PositionsOf(kind, tag, n - 1)

\* Every item of the input is behind exactly one entry of the result, an error
\* string naming its position or a created customer with its email, and both
\* lists follow the input order.
InInputOrder(res, input) ==
    \E kind \in [1 .. Len(input) -> {"error", "customer"}] :
        LET es == PositionsOf(kind, "error", Len(input))
            cs == PositionsOf(kind, "customer", Len(input))
        IN  /\ Len(res.errors) = Len(es)
            /\ \A k \in 1 .. Len(es) : NamesPosition(res.errors[k], es[k])
            /\ Len(res.customers) = Len(cs)
            /\ \A k \in 1 .. Len(cs) :
                  /\ res.customers[k].email = input[cs[k]].email
                  /\ res.customers[k].phone = input[cs[k]].phone

\* C18 as claimed: in every bulkCreateCustomers result the error strings are
\* in input order and each names the position of its item, the created
\* customers are in input order, and every item is in exactly one of the lists.
C18_ListsFollowInputAsClaimed ==
    \A p \in Procs :
        Returned(p, "bulkCreateCustomers") => InInputOrder(result[p], req[p].input)

\* C18: the same of every bulkCreateCustomers result but the one returned when
\* the batch's transaction itself fails, which holds no customer and the
\* single error "Transaction failed", naming no position.
C18_ListsFollowInput ==
    \A p \in Procs :
        Returned(p, "bulkCreateCustomers") =>
            \/ InInputOrder(result[p], req[p].input)
            \/ result[p] = TransactionFailedResult

\* C18 witness: of a batch of two the first item was created and the second
\* refused, and the one error string names position 2.
C18_Witness ==
    \E p \in Procs :
        /\ Returned(p, "bulkCreateCustomers")
        /\ Len(req[p].input) = 2
        /\ Len(result[p].customers) = 1
        /\ result[p].customers[1].email = req[p].input[1].email
        /\ result[p].errors = <<"Customer 2: Email already exists">>

====
